---- MODULE Spec2Model ----
(***************************************************************************)
(* Multi-key quicksort of an in-memory SortTuple array                     *)
(* (src/backend/utils/sort/mk_qsort_tuple.c).                              *)
(*                                                                         *)
(* The recursion of mk_qsort_tuple is unfolded into an explicit call stack *)
(* of frames; every frame carries the arguments and the locals of one      *)
(* call.  Array indices are 0-based within a frame's slice, as in the C    *)
(* code; the slice x[0..n) of a frame is arr[lo+1 .. lo+n].                *)
(***************************************************************************)
EXTENDS Integers, Sequences, FiniteSets, Bags, TLC

VARIABLES
    arr,        \* the SortTuple array handed to the top-level call
    state,      \* the Tuplesortstate fields the sort reads
    stack,      \* call stack of mk_qsort_tuple frames, innermost last
    status,     \* "running", "done" (top-level call returned), "cancelled"
    input,      \* the array as it was when the current top-level call began
    phase,      \* 1: first sort of the input, 2: sort of the first output
    dupCalls,   \* mkqsHandleDupFunc invocations of the current sort
    touched,    \* slice indices the last step read or swapped, with the slice length
    checks      \* counters of CHECK_FOR_INTERRUPTS invocations and of calls

vars == <<arr, state, stack, status, input, phase, dupCalls, touched, checks>>

----------------------------------------------------------------------------
(* Bounds of the model and constants of the program *)

\* longest array of the exhaustively enumerated inputs
MaxLen == 3

\* n < 16: insertion sort when there is no duplicate handler
SmallLimit == 16
\* n > 7: median of three
MedianLimit == 7
\* n > 40: ninther
NintherLimit == 40
\* d = n / 8 in the ninther
NintherDiv == 8

\* the NULL key value of a row: no word of the machine
NULL == 0 - 1

\* values of a machine word of the model (a two-bit Datum)
DatumVals == 0 .. 3

\* direction and null placement of a sort key
Ascending == [ssup_reverse |-> FALSE, ssup_nulls_first |-> FALSE]

Descending == [ssup_reverse |-> TRUE, ssup_nulls_first |-> TRUE]

CompFuncTypes ==
    {"MKQS_COMP_FUNC_UNSIGNED", "MKQS_COMP_FUNC_SIGNED",
     "MKQS_COMP_FUNC_INT32", "MKQS_COMP_FUNC_GENERIC"}

Min(a, b) == IF a < b THEN a ELSE b

----------------------------------------------------------------------------
(* SortTuple and the collaborators' comparators *)

\* the abbreviated form of a leading key value: the word with its low bit
\* dropped, so that two different values share one abbreviation
AbbrevOf(v) == v - (v % 2)

\* a SortTuple: datum1/isnull1 as stored, the row it points to, and the
\* identity of the row (its position in the input)
MakeTuple(row, id, abbrev) ==
    [datum1  |-> IF row[1] = NULL THEN 0
                 ELSE IF abbrev THEN AbbrevOf(row[1]) ELSE row[1],
     isnull1 |-> (row[1] = NULL),
     tuple   |-> row,
     id      |-> id]

\* two's complement reading of a word
AsSigned(v) ==
    IF 2 * v >= Cardinality(DatumVals) THEN v - Cardinality(DatumVals) ELSE v

Cmp3(a, b) == IF a < b THEN -1 ELSE IF a > b THEN 1 ELSE 0

\* the null handling and direction shared by all ApplySort*Comparator
ApplyNullsAndReverse(c, isNull1, isNull2, sortKey) ==
    IF isNull1
    THEN (IF isNull2 THEN 0 ELSE IF sortKey.ssup_nulls_first THEN -1 ELSE 1)
    ELSE IF isNull2
    THEN (IF sortKey.ssup_nulls_first THEN 1 ELSE -1)
    ELSE (IF sortKey.ssup_reverse THEN -c ELSE c)

ApplyUnsignedSortComparator(datum1, isNull1, datum2, isNull2, sortKey) ==
    ApplyNullsAndReverse(Cmp3(datum1, datum2), isNull1, isNull2, sortKey)

ApplySignedSortComparator(datum1, isNull1, datum2, isNull2, sortKey) ==
    ApplyNullsAndReverse(Cmp3(AsSigned(datum1), AsSigned(datum2)),
                         isNull1, isNull2, sortKey)

ApplyInt32SortComparator(datum1, isNull1, datum2, isNull2, sortKey) ==
    ApplyNullsAndReverse(Cmp3(AsSigned(datum1), AsSigned(datum2)),
                         isNull1, isNull2, sortKey)

\* the generic comparator of a sort key: the key's own comparison function,
\* here the numeric order of the word
ApplySortComparator(datum1, isNull1, datum2, isNull2, sortKey) ==
    ApplyNullsAndReverse(Cmp3(datum1, datum2), isNull1, isNull2, sortKey)

\* whether the leading key's type orders its words as signed numbers
LeadingSigned ==
    state.mkqsCompFuncType \in {"MKQS_COMP_FUNC_SIGNED", "MKQS_COMP_FUNC_INT32"}

\* the authoritative comparator of the full leading-key values
ApplySortAbbrevFullComparator(datum1, isNull1, datum2, isNull2, sortKey) ==
    ApplyNullsAndReverse(
        IF LeadingSigned THEN Cmp3(AsSigned(datum1), AsSigned(datum2))
                         ELSE Cmp3(datum1, datum2),
        isNull1, isNull2, sortKey)

\* mkqsGetDatumFunc: the datum of a tuple at a depth, from the row
GetDatum(t, depth) ==
    [datum  |-> IF t.tuple[depth + 1] = NULL THEN 0 ELSE t.tuple[depth + 1],
     isNull |-> (t.tuple[depth + 1] = NULL)]

----------------------------------------------------------------------------
(* Comparison helpers of mk_qsort_tuple.c *)

check_datum_null(t, depth) ==
    IF depth = 0 THEN t.isnull1 ELSE GetDatum(t, depth).isNull

mkqs_compare_datum_tiebreak(tuple1, tuple2, depth) ==
    LET sortKey == state.sortKeys[depth + 1]
        d1 == GetDatum(tuple1, depth)
        d2 == GetDatum(tuple2, depth)
    IN  IF state.abbrev_converter /\ depth = 0
        THEN ApplySortAbbrevFullComparator(d1.datum, d1.isNull,
                                           d2.datum, d2.isNull, sortKey)
        ELSE ApplySortComparator(d1.datum, d1.isNull,
                                 d2.datum, d2.isNull, sortKey)

mkqs_compare_datum_by_shortcut(tuple1, tuple2) ==
    LET sortKey == state.sortKeys[1]
        compFuncType == state.mkqsCompFuncType
    IN  IF compFuncType = "MKQS_COMP_FUNC_UNSIGNED"
        THEN ApplyUnsignedSortComparator(tuple1.datum1, tuple1.isnull1,
                                         tuple2.datum1, tuple2.isnull1, sortKey)
        ELSE IF compFuncType = "MKQS_COMP_FUNC_SIGNED"
        THEN ApplySignedSortComparator(tuple1.datum1, tuple1.isnull1,
                                       tuple2.datum1, tuple2.isnull1, sortKey)
        ELSE IF compFuncType = "MKQS_COMP_FUNC_INT32"
        THEN ApplyInt32SortComparator(tuple1.datum1, tuple1.isnull1,
                                      tuple2.datum1, tuple2.isnull1, sortKey)
        ELSE ApplySortComparator(tuple1.datum1, tuple1.isnull1,
                                 tuple2.datum1, tuple2.isnull1, sortKey)

\* mkqs_compare_datum without the full comparison of an abbreviated
\* leading key
mkqs_compare_datum_abbrev_only(tuple1, tuple2, depth) ==
    IF depth = 0 THEN mkqs_compare_datum_by_shortcut(tuple1, tuple2)
    ELSE mkqs_compare_datum_tiebreak(tuple1, tuple2, depth)

mkqs_compare_datum(tuple1, tuple2, depth) ==
    LET ret == mkqs_compare_datum_by_shortcut(tuple1, tuple2)
    IN  IF depth = 0 /\ ret # 0 THEN ret
        ELSE IF depth = 0 /\ ~state.abbrev_converter THEN ret
        ELSE mkqs_compare_datum_tiebreak(tuple1, tuple2, depth)

RECURSIVE CompareFromDepth(_, _, _)
\* the while loop of mkqs_compare_tuple_by_range_tiebreak
CompareFromDepth(tuple1, tuple2, depth) ==
    IF depth >= state.nKeys THEN 0
    ELSE LET d1 == GetDatum(tuple1, depth)
             d2 == GetDatum(tuple2, depth)
             ret == ApplySortComparator(d1.datum, d1.isNull,
                                        d2.datum, d2.isNull, state.sortKeys[depth + 1])
         IN  IF ret # 0 THEN ret
             ELSE CompareFromDepth(tuple1, tuple2, depth + 1)

mkqs_compare_tuple_by_range_tiebreak(tuple1, tuple2, depth) ==
    IF depth = 0
    THEN LET d1 == GetDatum(tuple1, 0)
             d2 == GetDatum(tuple2, 0)
             ret == IF state.abbrev_converter
                    THEN ApplySortAbbrevFullComparator(d1.datum, d1.isNull,
                                                       d2.datum, d2.isNull,
                                                       state.sortKeys[1])
                    ELSE 0
         IN  IF ret # 0 THEN ret
             ELSE CompareFromDepth(tuple1, tuple2, 1)
    ELSE CompareFromDepth(tuple1, tuple2, depth)

mkqs_compare_tuple_by_range(tuple1, tuple2, depth) ==
    LET ret == mkqs_compare_datum_by_shortcut(tuple1, tuple2)
    IN  IF depth = 0 /\ ret # 0 THEN ret
        ELSE mkqs_compare_tuple_by_range_tiebreak(tuple1, tuple2, depth)

\* qsort_tuple_unsigned_compare and its siblings: the leading key by the
\* specialized comparator, then the tiebreak over the whole tuple
qsort_tuple_compare(a, b) ==
    LET compare == mkqs_compare_datum_by_shortcut(a, b)
    IN  IF compare # 0 THEN compare
        ELSE mkqs_compare_tuple_by_range_tiebreak(a, b, 0)

mkqs_compare_tuple(a, b) == qsort_tuple_compare(a, b)

----------------------------------------------------------------------------
(* Array primitives *)

\* mkqs_swap that does not store the saved tuple back
mkqs_swap_overwrite(a, b, x) ==
    IF a = b THEN x ELSE [x EXCEPT ![a + 1] = x[b + 1]]

\* x with the tuples at 0-based positions a and b exchanged
mkqs_swap(a, b, x) ==
    IF a = b THEN x
    ELSE [x EXCEPT ![a + 1] = x[b + 1], ![b + 1] = x[a + 1]]

RECURSIVE mkqs_vec_swap(_, _, _, _)
\* size successive swaps of x[a+k] with x[b+k]; each intermediate array is
\* bound to y, so that it is computed once
mkqs_vec_swap(a, b, size, x) ==
    IF size > 0
    THEN CHOOSE r \in { mkqs_vec_swap(a + 1, b + 1, size - 1, y) :
                          y \in {mkqs_swap(a, b, x)} } : TRUE
    ELSE x

\* x[i] of a call whose slice starts at offset lo of the array
Elt(lo, i) == arr[lo + i + 1]

get_median_from_three(a, b, c, lo, depth) ==
    IF mkqs_compare_datum(Elt(lo, a), Elt(lo, b), depth) < 0
    THEN (IF mkqs_compare_datum(Elt(lo, b), Elt(lo, c), depth) < 0 THEN b
          ELSE IF mkqs_compare_datum(Elt(lo, a), Elt(lo, c), depth) < 0 THEN c
          ELSE a)
    ELSE (IF mkqs_compare_datum(Elt(lo, b), Elt(lo, c), depth) > 0 THEN b
          ELSE IF mkqs_compare_datum(Elt(lo, a), Elt(lo, c), depth) < 0 THEN a
          ELSE c)

\* the index of the pivot: n/2, median of three, or ninther
SelectPivotIndex(lo, n, depth) ==
    IF n > MedianLimit
    THEN LET m0 == n \div 2
             l0 == 0
             r0 == n - 1
             d  == n \div NintherDiv
             l  == IF n > NintherLimit
                   THEN get_median_from_three(l0, l0 + d, l0 + 2 * d, lo, depth)
                   ELSE l0
             m  == IF n > NintherLimit
                   THEN get_median_from_three(m0 - d, m0, m0 + d, lo, depth)
                   ELSE m0
             r  == IF n > NintherLimit
                   THEN get_median_from_three(r0 - 2 * d, r0 - d, r0, lo, depth)
                   ELSE r0
         IN  get_median_from_three(l, m, r, lo, depth)
    ELSE n \div 2

\* the indices the pivot selection reads
PivotProbes(n) ==
    IF n > NintherLimit
    THEN LET d == n \div NintherDiv
             m == n \div 2
             r == n - 1
         IN  {0, d, 2 * d, m - d, m, m + d, r - 2 * d, r - d, r}
    ELSE IF n > MedianLimit THEN {0, n \div 2, n - 1}
    ELSE {n \div 2}

RECURSIVE BubbleDown(_, _, _, _)
\* the inner loop of the small-array sort: sink x[l] while it is smaller
\* than its left neighbour
BubbleDown(x, lo, l, depth) ==
    IF l > 0 /\ mkqs_compare_tuple_by_range(x[lo + l], x[lo + l + 1], depth) > 0
    THEN CHOOSE r \in { BubbleDown(y, lo, l - 1, depth) :
                          y \in {mkqs_swap(lo + l, lo + l - 1, x)} } : TRUE
    ELSE x

RECURSIVE SmallSort(_, _, _, _, _)
\* the outer loop of the small-array sort, from m to n - 1
SmallSort(x, lo, n, m, depth) ==
    IF m < n
    THEN CHOOSE r \in { SmallSort(y, lo, n, m + 1, depth) :
                          y \in {BubbleDown(x, lo, m, depth)} } : TRUE
    ELSE x

\* whether the call runs a pre-ordered loop: always with the generic
\* comparator, at depth 0 only with a specialized one
PreOrderedLoops(depth) ==
    state.mkqsCompFuncType = "MKQS_COMP_FUNC_GENERIC" \/ depth = 0

\* the break condition of the strict per-depth loop for every comparator
PreOrderedBreak_strict(lo, i, depth) ==
    mkqs_compare_datum(Elt(lo, i), Elt(lo, i + 1), depth) >= 0

\* whether iteration i of the pre-ordered loop breaks: x[i] after x[i + 1]
\* as entire tuples with a specialized comparator, x[i] not before
\* x[i + 1] at the call's depth with the generic one
PreOrderedBreak(lo, i, depth) ==
    IF state.mkqsCompFuncType # "MKQS_COMP_FUNC_GENERIC"
    THEN mkqs_compare_tuple(Elt(lo, i), Elt(lo, i + 1)) > 0
    ELSE mkqs_compare_datum(Elt(lo, i), Elt(lo, i + 1), depth) >= 0

----------------------------------------------------------------------------
(* Inputs *)

\* rows (key 0, key 1, key 2) the enumerated arrays are built from
Rows ==
    { <<0, 0, 0>>, <<1, 1, 0>>, <<3, 1, 1>>,
      <<NULL, 0, 0>>, <<NULL, 0, 1>>, <<0, NULL, 0>> }

\* all arrays of rows of length 0 .. MaxLen
SmallRowArrays == UNION { [1 .. k -> Rows] : k \in 0 .. MaxLen }

\* lengths on both sides of the small-array, median and ninther limits
BigLens == {MedianLimit + 1, SmallLimit, SmallLimit + 1, NintherLimit + 1}

\* multipliers of the generated arrays
BigSeeds == {0, 1, 3}

\* a generated array: key 0 cycles through the words, key 1 through
\* 0, 1, NULL, key 2 alternates
BigRowArray(n, g) ==
    [i \in 1 .. n |->
        << (i * g) % Cardinality(DatumVals),
           IF (i * (g + 1)) % 3 = 2 THEN NULL ELSE (i * (g + 1)) % 3,
           (i \div 2) % 2 >>]

\* three keys: ascending, descending with NULLs first, ascending;
\* two keys: descending with NULLs first, ascending
States ==
    [nKeys : {3}, sortKeys : {<<Ascending, Descending, Ascending>>},
     mkqsCompFuncType : CompFuncTypes,
     mkqsHandleDupFunc : BOOLEAN, abbrev_converter : BOOLEAN]
    \cup
    [nKeys : {2}, sortKeys : {<<Descending, Ascending>>},
     mkqsCompFuncType : CompFuncTypes,
     mkqsHandleDupFunc : BOOLEAN, abbrev_converter : BOOLEAN]

\* two keys, both ascending with NULLs last
BigStates ==
    [nKeys : {2}, sortKeys : {<<Ascending, Ascending>>},
     mkqsCompFuncType : {"MKQS_COMP_FUNC_INT32", "MKQS_COMP_FUNC_GENERIC"},
     mkqsHandleDupFunc : BOOLEAN, abbrev_converter : {FALSE}]

TupleArray(rows, abbrev) ==
    [i \in 1 .. Len(rows) |-> MakeTuple(rows[i], i, abbrev)]

----------------------------------------------------------------------------
(* The call stack *)

NoTuple == MakeTuple(<<0, 0, 0>>, 0, FALSE)

\* the frame of a call mk_qsort_tuple(x + lo, n, depth, state, seenNull)
Frame(lo, n, depth, seenNull) ==
    [lo |-> lo, n |-> n, depth |-> depth, seenNull |-> seenNull,
     pc |-> "entry", i |-> 0,
     lessStart |-> 0, lessEnd |-> 0, greaterStart |-> 0, greaterEnd |-> 0,
     pivot |-> NoTuple, pivotIdx |-> 0]

top == stack[Len(stack)]

Running == status = "running" /\ stack # <<>>

SetTop(f) == [stack EXCEPT ![Len(stack)] = f]

\* the stack after the innermost call returned
Popped == SubSeq(stack, 1, Len(stack) - 1)

\* the status after the innermost call returned
StatusAfterReturn == IF Len(stack) = 1 THEN "done" ELSE "running"

NoTouch == [idx |-> {}, n |-> 0]

\* a CHECK_FOR_INTERRUPTS left out
Checked_dropped(c, site) == c

\* one more CHECK_FOR_INTERRUPTS: at the entry of a call, in the
\* pre-ordered loop or at the top of the partition loop
Checked(c, site) ==
    [c EXCEPT ![site] = @ + 1, !.cmps = 0]

Init ==
    /\ \/ \E st \in States, rows \in SmallRowArrays :
            /\ state = st
            /\ arr = TupleArray(rows, st.abbrev_converter)
       \/ \E st \in BigStates, n \in BigLens, g \in BigSeeds :
            /\ state = st
            /\ arr = TupleArray(BigRowArray(n, g), st.abbrev_converter)
    /\ input = arr
    /\ stack = << Frame(0, Len(arr), 0, FALSE) >>
    /\ status = "running"
    /\ phase = 1
    /\ dupCalls = <<>>
    /\ touched = NoTouch
    /\ checks = [calls |-> 0, entry |-> 0, pre |-> 0, loop |-> 0, cmps |-> 0]

----------------------------------------------------------------------------
(* Steps of mk_qsort_tuple *)

\* whether the call returns at once
BaseCase(f) == f.n <= 1 \/ f.depth = state.nKeys

\* entry of a call: the two base cases, then CHECK_FOR_INTERRUPTS
Enter ==
    /\ Running /\ top.pc = "entry"
    /\ IF BaseCase(top)
       THEN /\ stack' = Popped
            /\ status' = StatusAfterReturn
            /\ checks' = [checks EXCEPT !.calls = @ + 1]
       ELSE /\ stack' = SetTop([top EXCEPT !.pc = "preorder"])
            /\ status' = status
            /\ checks' = Checked([checks EXCEPT !.calls = @ + 1], "entry")
    /\ touched' = NoTouch
    /\ UNCHANGED <<arr, state, input, phase, dupCalls>>

\* the pre-ordered check, one iteration of its loop at a time:
\* CHECK_FOR_INTERRUPTS, then the comparison of x[i] and x[i + 1]; the loop
\* breaks at the first pair out of order, and the call returns when no pair
\* is; a call that runs no loop goes on to sort
PreOrderedCheck ==
    /\ Running /\ top.pc = "preorder"
    /\ IF ~PreOrderedLoops(top.depth)
       THEN /\ stack' = SetTop([top EXCEPT !.pc = "sort"])
            /\ status' = status
            /\ touched' = NoTouch
            /\ checks' = checks
       ELSE /\ checks' = Checked(checks, "pre")
            /\ touched' = [idx |-> {top.i, top.i + 1}, n |-> top.n]
            /\ IF PreOrderedBreak(top.lo, top.i, top.depth)
               THEN /\ stack' = SetTop([top EXCEPT !.pc = "sort"])
                    /\ status' = status
               ELSE IF top.i + 1 < top.n - 1
               THEN /\ stack' = SetTop([top EXCEPT !.i = @ + 1])
                    /\ status' = status
               ELSE /\ stack' = Popped
                    /\ status' = StatusAfterReturn
    /\ UNCHANGED <<arr, state, input, phase, dupCalls>>

UseSmallSort(f) == f.n < SmallLimit /\ ~state.mkqsHandleDupFunc

\* n < 16 and no duplicate handler: sort the slice by whole-range
\* comparison and return
InsertionSort ==
    /\ Running /\ top.pc = "sort" /\ UseSmallSort(top)
    /\ arr' = SmallSort(arr, top.lo, top.n, 0, top.depth)
    /\ stack' = Popped
    /\ status' = StatusAfterReturn
    /\ touched' = [idx |-> 0 .. top.n - 1, n |-> top.n]
    /\ UNCHANGED <<state, input, phase, dupCalls, checks>>

\* select the pivot, move it to position 0, set up the four cursors
SelectPivot ==
    /\ Running /\ top.pc = "sort" /\ ~UseSmallSort(top)
    /\ LET idx == SelectPivotIndex(top.lo, top.n, top.depth)
       IN  /\ arr' = mkqs_swap(top.lo + 0, top.lo + idx, arr)
           /\ stack' = SetTop([top EXCEPT !.pc = "loop",
                                          !.lessStart = 1,
                                          !.lessEnd = 1,
                                          !.greaterStart = top.n - 1,
                                          !.greaterEnd = top.n - 1,
                                          !.pivot = Elt(top.lo, idx),
                                          !.pivotIdx = idx])
           /\ touched' = [idx |-> PivotProbes(top.n) \cup {0, idx}, n |-> top.n]
    /\ UNCHANGED <<state, status, input, phase, dupCalls, checks>>

\* the loop condition as lessEnd < greaterStart
AfterScan_strict(f, pc) == IF f.lessEnd < f.greaterStart THEN pc ELSE "fold"

\* where the partition goes after a scan moved a cursor: both inner loops
\* and the swap are skipped once the cursors have crossed
AfterScan(f, pc) == IF f.lessEnd <= f.greaterStart THEN pc ELSE "fold"

\* top of the while (true) loop: CHECK_FOR_INTERRUPTS
LoopTop ==
    /\ Running /\ top.pc = "loop"
    /\ stack' = SetTop([top EXCEPT !.pc = AfterScan(top, "left")])
    /\ checks' = Checked(checks, "loop")
    /\ touched' = NoTouch
    /\ UNCHANGED <<arr, state, status, input, phase, dupCalls>>

\* one iteration of the scan from the left
LeftScan ==
    /\ Running /\ top.pc = "left"
    /\ LET dist == mkqs_compare_datum(Elt(top.lo, top.lessEnd),
                                      Elt(top.lo, 0), top.depth)
           moved == [top EXCEPT !.lessStart = IF dist = 0 THEN @ + 1 ELSE @,
                                !.lessEnd = @ + 1]
       IN  /\ IF dist > 0
              THEN /\ stack' = SetTop([top EXCEPT !.pc = "right"])
                   /\ arr' = arr
              ELSE /\ stack' = SetTop([moved EXCEPT !.pc = AfterScan(moved, "left")])
                   /\ arr' = IF dist = 0
                             THEN mkqs_swap(top.lo + top.lessEnd,
                                            top.lo + top.lessStart, arr)
                             ELSE arr
           /\ touched' = [idx |-> {0, top.lessEnd}
                                  \cup (IF dist = 0 THEN {top.lessStart} ELSE {}),
                          n |-> top.n]
    /\ checks' = [checks EXCEPT !.cmps = @ + 1]
    /\ UNCHANGED <<state, status, input, phase, dupCalls>>

\* one iteration of the scan from the right
RightScan ==
    /\ Running /\ top.pc = "right"
    /\ LET dist == mkqs_compare_datum(Elt(top.lo, top.greaterStart),
                                      Elt(top.lo, 0), top.depth)
           moved == [top EXCEPT !.greaterEnd = IF dist = 0 THEN @ - 1 ELSE @,
                                !.greaterStart = @ - 1]
       IN  /\ IF dist < 0
              THEN /\ stack' = SetTop([top EXCEPT !.pc = "swap"])
                   /\ arr' = arr
              ELSE /\ stack' = SetTop([moved EXCEPT !.pc = AfterScan(moved, "right")])
                   /\ arr' = IF dist = 0
                             THEN mkqs_swap(top.lo + top.greaterStart,
                                            top.lo + top.greaterEnd, arr)
                             ELSE arr
           /\ touched' = [idx |-> {0, top.greaterStart}
                                  \cup (IF dist = 0 THEN {top.greaterEnd} ELSE {}),
                          n |-> top.n]
    /\ checks' = [checks EXCEPT !.cmps = @ + 1]
    /\ UNCHANGED <<state, status, input, phase, dupCalls>>

\* both scans stopped before crossing: exchange the two tuples
SwapStep ==
    /\ Running /\ top.pc = "swap"
    /\ arr' = mkqs_swap(top.lo + top.lessEnd, top.lo + top.greaterStart, arr)
    /\ stack' = SetTop([top EXCEPT !.pc = "loop",
                                   !.lessEnd = @ + 1,
                                   !.greaterStart = @ - 1])
    /\ touched' = [idx |-> {top.lessEnd, top.greaterStart}, n |-> top.n]
    /\ UNCHANGED <<state, status, input, phase, dupCalls, checks>>

\* sizes of the three parts once the loop has ended
LessSize(f) == f.lessEnd - f.lessStart

EqualSize(f) == f.lessStart + f.n - f.greaterEnd - 1

GreaterSize(f) == f.greaterEnd - f.greaterStart

\* the block swaps with the sizes of the equal parts, without Min
FoldEquals_nomin(f, x) ==
    LET dl == f.lessStart
        xl == mkqs_vec_swap(f.lo + 0, f.lo + f.lessEnd - dl, dl, x)
        dr == f.n - f.greaterEnd - 1
    IN  mkqs_vec_swap(f.lo + f.lessEnd, f.lo + f.n - dr, dr, xl)

\* the two block swaps that move the left and the right equal parts to the
\* middle
FoldEquals(f, x) ==
    LET dl == Min(f.lessStart, f.lessEnd - f.lessStart)
        xl == mkqs_vec_swap(f.lo + 0, f.lo + f.lessEnd - dl, dl, x)
        dr == Min(f.greaterEnd - f.greaterStart, f.n - f.greaterEnd - 1)
    IN  mkqs_vec_swap(f.lo + f.lessEnd, f.lo + f.n - dr, dr, xl)

\* the indices the two block swaps exchange
FoldTouched(f) ==
    LET dl == Min(f.lessStart, f.lessEnd - f.lessStart)
        dr == Min(f.greaterEnd - f.greaterStart, f.n - f.greaterEnd - 1)
    IN  (0 .. dl - 1) \cup (f.lessEnd - dl .. f.lessEnd - 1)
        \cup (f.lessEnd .. f.lessEnd + dr - 1) \cup (f.n - dr .. f.n - 1)

\* the arguments of the three recursive calls
LessCall(f) == Frame(f.lo, LessSize(f), f.depth, f.seenNull)

\* seenNull passed on without the null test at the current depth
EqualSeenNull_inherited(f) == f.seenNull

\* the null test at the current depth alone, seenNull dropped
EqualSeenNull_depthOnly(f) ==
    check_datum_null(Elt(f.lo, LessSize(f)), f.depth)

EqualSeenNull(f) ==
    f.seenNull \/ check_datum_null(Elt(f.lo, LessSize(f)), f.depth)

EqualCall(f) ==
    Frame(f.lo + LessSize(f), EqualSize(f), f.depth + 1, EqualSeenNull(f))

\* the greater call made on the whole slice
GreaterCall_whole(f) == Frame(f.lo, f.n, f.depth, f.seenNull)

GreaterCall(f) ==
    Frame(f.lo + f.n - GreaterSize(f), GreaterSize(f), f.depth, f.seenNull)

\* the loop has ended: fold the equal parts to the middle and sort the
\* less part
FoldAndSortLess ==
    /\ Running /\ top.pc = "fold"
    /\ arr' = FoldEquals(top, arr)
    /\ stack' = Append(SetTop([top EXCEPT !.pc = "equal"]), LessCall(top))
    /\ touched' = [idx |-> FoldTouched(top), n |-> top.n]
    /\ UNCHANGED <<state, status, input, phase, dupCalls, checks>>

\* the less part is sorted: sort the equal part at the next depth, or at
\* the last depth hand it to mkqsHandleDupFunc
SortEqual ==
    /\ Running /\ top.pc = "equal"
    /\ IF top.depth < state.nKeys - 1
       THEN /\ stack' = Append(SetTop([top EXCEPT !.pc = "greater"]), EqualCall(top))
            /\ dupCalls' = dupCalls
       ELSE /\ stack' = SetTop([top EXCEPT !.pc = "greater"])
            /\ dupCalls' =
                 IF state.mkqsHandleDupFunc /\ EqualSize(top) > 1
                 THEN Append(dupCalls,
                             [run |-> SubSeq(arr, top.lo + LessSize(top) + 1,
                                             top.lo + LessSize(top) + EqualSize(top)),
                              len |-> EqualSize(top),
                              seenNull |-> EqualSeenNull(top)])
                 ELSE dupCalls
    /\ touched' = [idx |-> {LessSize(top)}, n |-> top.n]
    /\ UNCHANGED <<arr, state, status, input, phase, checks>>

\* sort the greater part
SortGreater ==
    /\ Running /\ top.pc = "greater"
    /\ stack' = Append(SetTop([top EXCEPT !.pc = "return"]), GreaterCall(top))
    /\ touched' = NoTouch
    /\ UNCHANGED <<arr, state, status, input, phase, dupCalls, checks>>

\* the call returns after its three recursive calls
Return ==
    /\ Running /\ top.pc = "return"
    /\ stack' = Popped
    /\ status' = StatusAfterReturn
    /\ touched' = NoTouch
    /\ UNCHANGED <<arr, state, input, phase, dupCalls, checks>>

\* whether the next step of the innermost call is CHECK_FOR_INTERRUPTS
AtCheckForInterrupts ==
    \/ top.pc = "entry" /\ ~BaseCase(top)
    \/ top.pc = "preorder" /\ PreOrderedLoops(top.depth)
    \/ top.pc = "loop"

\* CHECK_FOR_INTERRUPTS raises: the sort is abandoned where it is
Interrupt ==
    /\ Running /\ AtCheckForInterrupts
    /\ status' = "cancelled"
    /\ touched' = NoTouch
    /\ UNCHANGED <<arr, state, stack, input, phase, dupCalls, checks>>

\* the caller sorts the output of the first sort again, with the same state
SortAgain ==
    /\ status = "done" /\ phase = 1
    /\ phase' = 2
    /\ input' = arr
    /\ stack' = << Frame(0, Len(arr), 0, FALSE) >>
    /\ status' = "running"
    /\ dupCalls' = <<>>
    /\ touched' = NoTouch
    /\ checks' = [calls |-> 0, entry |-> 0, pre |-> 0, loop |-> 0, cmps |-> 0]
    /\ UNCHANGED <<arr, state>>

Next ==
    \/ Enter
    \/ PreOrderedCheck
    \/ InsertionSort
    \/ SelectPivot
    \/ LoopTop
    \/ LeftScan
    \/ RightScan
    \/ SwapStep
    \/ FoldAndSortLess
    \/ SortEqual
    \/ SortGreater
    \/ Return
    \/ Interrupt
    \/ SortAgain

Spec == Init /\ [][Next]_vars

\* without interrupts every enabled step is eventually taken
FairSpec == Spec /\ WF_vars(Next)

----------------------------------------------------------------------------
(* The order the sort is to establish, stated on the rows *)

\* comparison of the full values of key d of two tuples: NULLs by the
\* key's null placement, values by the key's order and direction
KeyOrder(t1, t2, d) ==
    LET a == t1.tuple[d + 1]
        b == t2.tuple[d + 1]
        sk == state.sortKeys[d + 1]
        va == IF d = 0 /\ LeadingSigned THEN AsSigned(a) ELSE a
        vb == IF d = 0 /\ LeadingSigned THEN AsSigned(b) ELSE b
    IN  IF a = NULL /\ b = NULL THEN 0
        ELSE IF a = NULL THEN (IF sk.ssup_nulls_first THEN -1 ELSE 1)
        ELSE IF b = NULL THEN (IF sk.ssup_nulls_first THEN 1 ELSE -1)
        ELSE IF va = vb THEN 0
        ELSE IF (va < vb) = sk.ssup_reverse THEN 1 ELSE -1

\* t1 <=_K t2: at the first key where they differ, t1 comes first
LeqK(t1, t2) ==
    \A d \in 0 .. state.nKeys - 1 :
        (\A e \in 0 .. d - 1 : KeyOrder(t1, t2, e) = 0) => KeyOrder(t1, t2, d) <= 0

\* equal at every sort key
EqualK(t1, t2) == \A d \in 0 .. state.nKeys - 1 : KeyOrder(t1, t2, d) = 0

Range(x) == {x[i] : i \in DOMAIN x}

Count(x, t) == Cardinality({i \in DOMAIN x : x[i] = t})

\* the tuples of the slice of a frame
SliceOf(f) == {Elt(f.lo, i) : i \in 0 .. f.n - 1}

Frames == Range(stack)

Done == status = "done"

HasNullAbove(ts, depth) ==
    \E t \in ts : \E d \in 0 .. depth - 1 : t.tuple[d + 1] = NULL

----------------------------------------------------------------------------
(* C1 *)

\* C1: when the top-level call has returned, every adjacent pair of the
\* array is in the lexicographic order of the sort keys, the leading key
\* taken at its full value (so also when datum1 is an abbreviation)
C1_Sorted ==
    Done => \A i \in 1 .. Len(arr) - 1 : LeqK(arr[i], arr[i + 1])

\* a finished sort that moved tuples, with an abbreviated leading key, whose
\* output holds neighbours of one datum1 and different full leading values
C1_Witness ==
    /\ Done /\ phase = 1 /\ arr # input
    /\ state.abbrev_converter
    /\ \E i \in 1 .. Len(arr) - 1 :
          /\ ~arr[i].isnull1 /\ ~arr[i + 1].isnull1
          /\ arr[i].datum1 = arr[i + 1].datum1
          /\ arr[i].tuple[1] # arr[i + 1].tuple[1]

----------------------------------------------------------------------------
(* C2 *)

\* C2: in every state of a sort (so at every CHECK_FOR_INTERRUPTS, at a
\* cancellation and at return) the array holds exactly the tuples of the
\* input, each as often as the input does
C2_Permutation ==
    /\ Len(arr) = Len(input)
    /\ \A t \in Range(arr) \cup Range(input) : Count(arr, t) = Count(input, t)

\* a sort cancelled in the partition loop after tuples were moved
C2_Witness ==
    /\ status = "cancelled" /\ arr # input
    /\ top.pc = "loop" /\ top.lessEnd > 1

----------------------------------------------------------------------------
(* C3 *)

\* C3: with a duplicate handler, when the sort has returned, any two tuples
\* equal at every sort key were handed to the handler together exactly once
C3_HandledOnce ==
    (Done /\ state.mkqsHandleDupFunc) =>
        \A i, j \in 1 .. Len(arr) :
            (i < j /\ EqualK(arr[i], arr[j])) =>
                Cardinality({c \in 1 .. Len(dupCalls) :
                                {arr[i], arr[j]} \subseteq Range(dupCalls[c].run)}) = 1

----------------------------------------------------------------------------
(* C4 *)

\* C4 as claimed: seenNull of a handler call is true exactly when one of
\* the keys above the deepest key is NULL in the run
C4_NullAboveDeepest ==
    \A c \in Range(dupCalls) :
        c.seenNull <=> HasNullAbove(Range(c.run), state.nKeys - 1)

\* C4 amended: seenNull of a handler call is true exactly when one of the
\* nKeys keys, the deepest included, is NULL in the run
C4_NullAtAnyKey ==
    \A c \in Range(dupCalls) :
        c.seenNull <=> HasNullAbove(Range(c.run), state.nKeys)

\* a handler call whose run is NULL at the deepest key only
C4_Witness ==
    \E c \in Range(dupCalls) :
        /\ c.seenNull
        /\ ~HasNullAbove(Range(c.run), state.nKeys - 1)
        /\ c.len >= 2

----------------------------------------------------------------------------
(* C5 *)

\* C5 as claimed: sorting the output again leaves every position unchanged
C5_Unchanged ==
    (Done /\ phase = 2) => arr = input

\* C5 amended: sorting the output again leaves the rows' sort keys at every
\* position unchanged, and leaves the tuples themselves unchanged when the
\* leading comparator is specialized, or when the array is shorter than 16
\* and there is no duplicate handler
C5_UnchangedUpToTies ==
    (Done /\ phase = 2) =>
        /\ \A i \in DOMAIN arr : EqualK(arr[i], input[i])
        /\ (state.mkqsCompFuncType # "MKQS_COMP_FUNC_GENERIC"
              \/ (Len(arr) < SmallLimit /\ ~state.mkqsHandleDupFunc))
           => arr = input

\* the second sort has returned on an array with two tuples that are
\* equal at every sort key
C5_Witness ==
    /\ Done /\ phase = 2 /\ arr = input
    /\ state.mkqsCompFuncType # "MKQS_COMP_FUNC_GENERIC"
    /\ state.mkqsHandleDupFunc
    /\ \E i \in 1 .. Len(arr) - 1 : EqualK(arr[i], arr[i + 1])

----------------------------------------------------------------------------
(* C6 *)

\* frames whose partition loop and block swaps are over
Folded(f) == f.pc \in {"equal", "greater", "return"}

\* C6: once a call has folded its equal parts to the middle, its slice is
\* [less | equal | greater] against the pivot at the call's depth, with the
\* sizes computed from the cursors; and the tuples of every call's slice
\* are equal at all keys above the call's depth
C6_Layout ==
    /\ \A f \in Frames : Folded(f) =>
          \A i \in 0 .. f.n - 1 :
              LET c == mkqs_compare_datum(Elt(f.lo, i), f.pivot, f.depth)
              IN  IF i < LessSize(f) THEN c < 0
                  ELSE IF i < LessSize(f) + EqualSize(f) THEN c = 0
                  ELSE c > 0
    /\ \A f \in Frames : \A t1, t2 \in SliceOf(f) :
          \A d \in 0 .. f.depth - 1 : KeyOrder(t1, t2, d) = 0

\* a call at depth 1 that has just folded a left and a right equal part
\* around a less and a greater part
C6_Witness ==
    /\ Running /\ Len(stack) >= 3
    /\ LET f == stack[Len(stack) - 1]
       IN  /\ f.pc = "equal" /\ top.pc = "entry" /\ f.depth = 1
           /\ f.lessStart >= 2 /\ f.n - f.greaterEnd - 1 >= 1
           /\ LessSize(f) >= 1 /\ GreaterSize(f) >= 1

----------------------------------------------------------------------------
(* C7 *)

\* every call on the stack below another made that call with fewer tuples
\* at its own depth, or with at most its own tuples one key deeper
CallsShrink ==
    /\ \A k \in 2 .. Len(stack) :
          \/ stack[k].depth = stack[k - 1].depth /\ stack[k].n < stack[k - 1].n
          \/ stack[k].depth = stack[k - 1].depth + 1 /\ stack[k].n <= stack[k - 1].n
    /\ \A f \in Frames : f.depth <= state.nKeys

\* C7: every recursive call is smaller at the same depth or one key deeper
\* with no more tuples, and a running sort eventually returns or is
\* cancelled
C7_Terminates ==
    /\ []CallsShrink
    /\ (status = "running") ~> (status # "running")

\* a call at the last depth made by an equal call that kept all tuples of
\* its caller, itself followed by a less or greater call
C7_Witness ==
    /\ Running /\ Len(stack) >= 4
    /\ \E k \in 2 .. Len(stack) - 1 :
          /\ stack[k].depth = stack[k - 1].depth + 1
          /\ stack[k].n = stack[k - 1].n
          /\ stack[k + 1].depth = stack[k].depth
          /\ stack[k + 1].n >= 2

----------------------------------------------------------------------------
(* C8 *)

\* C8 as claimed: every call invoked CHECK_FOR_INTERRUPTS at its entry, and
\* no two pivot comparisons of the scans follow each other without one
C8_CheckedEverywhere ==
    /\ checks.entry = checks.calls
    /\ checks.cmps <= 1

\* a step of the innermost call of a sort that goes on
StepAt(pcs) == Running /\ top.pc \in pcs /\ status' = "running" /\ phase' = phase

\* C8 amended: CHECK_FOR_INTERRUPTS is invoked at the entry of exactly the
\* calls with n >= 2 and depth < nKeys, once before each comparison of two
\* neighbours in the pre-ordered loop (run at depth 0, and at every depth
\* with the generic comparator), and once at the top of every iteration of
\* the outer partition loop; the comparisons of the two inner scans invoke
\* none
C8_CheckedAtEntryAndLoopTop ==
    [][ /\ StepAt({"entry"}) =>
              /\ checks'.calls = checks.calls + 1
              /\ checks'.entry = checks.entry
                                   + (IF top.n >= 2 /\ top.depth < state.nKeys
                                      THEN 1 ELSE 0)
              /\ checks'.pre = checks.pre
        /\ StepAt({"preorder"}) =>
              /\ checks'.entry = checks.entry /\ checks'.loop = checks.loop
              /\ IF state.mkqsCompFuncType = "MKQS_COMP_FUNC_GENERIC"
                    \/ top.depth = 0
                 THEN /\ checks'.pre = checks.pre + 1
                      /\ checks'.cmps = 0
                      /\ Cardinality(touched'.idx) = 2
                 ELSE /\ checks'.pre = checks.pre
                      /\ touched'.idx = {}
        /\ StepAt({"loop"}) =>
              /\ checks'.loop = checks.loop + 1
              /\ checks'.cmps = 0
              /\ checks'.pre = checks.pre
        /\ StepAt({"left", "right"}) =>
              /\ checks'.cmps = checks.cmps + 1
              /\ checks'.loop = checks.loop /\ checks'.entry = checks.entry
              /\ checks'.pre = checks.pre
      ]_vars

\* a scan that compared a third tuple with the pivot since the last
\* CHECK_FOR_INTERRUPTS, in a sort that made calls returning before theirs
\* and one of whose pre-ordered loops went beyond its first pair
C8_Witness ==
    /\ Running /\ top.pc \in {"left", "right"}
    /\ checks.cmps >= 2 /\ checks.loop >= 1
    /\ checks.calls > checks.entry
    /\ checks.pre >= 2
    /\ \E f \in Frames : f.i >= 1

----------------------------------------------------------------------------
(* C9 *)

\* C9: the seenNull argument of every call with at least one tuple is true
\* exactly when a key above the call's depth is NULL in its slice
C9_SeenNull ==
    \A f \in Frames :
        f.n >= 1 => (f.seenNull <=> HasNullAbove(SliceOf(f), f.depth))

\* a call at depth 2 that got seenNull from key 0 while key 1 is not NULL,
\* and a less or greater call below it that passed it on
C9_Witness ==
    /\ Running /\ Len(stack) >= 4
    /\ top.depth = 2 /\ top.seenNull /\ top.n >= 1
    /\ stack[Len(stack) - 1].depth = 2
    /\ \A t \in SliceOf(top) : t.tuple[2] # NULL

----------------------------------------------------------------------------
(* C10 *)

InLoop(f) == f.pc \in {"loop", "left", "right", "swap"}

\* C10: the pivot index and every index read or swapped lie in [0, n); the
\* cursors stay ordered in the loop and meet exactly at its exit; the three
\* sizes are non-negative and sum to n, the equal part holding the pivot
C10_IndexSafety ==
    /\ touched.idx \subseteq 0 .. touched.n - 1
    /\ \A f \in Frames :
          /\ (InLoop(f) \/ f.pc = "fold" \/ Folded(f)) =>
                 f.pivotIdx \in 0 .. f.n - 1
          /\ InLoop(f) =>
                 /\ 1 <= f.lessStart /\ f.lessStart <= f.lessEnd
                 /\ f.lessEnd <= f.greaterStart + 1
                 /\ f.greaterStart <= f.greaterEnd /\ f.greaterEnd <= f.n - 1
          /\ f.pc = "fold" => f.greaterStart = f.lessEnd - 1
          /\ (f.pc = "fold" \/ Folded(f)) =>
                 /\ LessSize(f) >= 0 /\ GreaterSize(f) >= 0 /\ EqualSize(f) >= 1
                 /\ LessSize(f) + EqualSize(f) + GreaterSize(f) = f.n

\* the loop of a call on more than 40 tuples (pivot by ninther) has ended
\* with tuples in all four parts
C10_Witness ==
    /\ Running /\ top.pc = "fold" /\ top.n > NintherLimit
    /\ top.lessStart >= 2 /\ top.greaterEnd < top.n - 1
    /\ LessSize(top) >= 1 /\ GreaterSize(top) >= 1

====
